---- MODULE Spec2Model ----
(***************************************************************************)
(* A state-machine model of panelsplit.PanelSplit                          *)
(* (src/panelsplit/panelsplit.py): the constructor, split, get_n_splits,   *)
(* cross_val_predict and cross_val_impute.                                 *)
(*                                                                         *)
(* Rows are numbered 1..N in dataset order; a pandas Series over the rows  *)
(* is a sequence of length N.  A boolean mask is a sequence of BOOLEAN of  *)
(* length N.  Positions inside the unique-period sequence are 1-based here *)
(* (numpy's are 0-based); nothing observable depends on the offset.        *)
(***************************************************************************)
EXTENDS Integers, Sequences, FiniteSets, TLC

\* ------------------------------------------------------------------ bounds
MaxRows == 3
MaxPeriod == 3

\* ------------------------------------------------------- input domains
NA == -1
Labels == {0, 1, NA}
Periods == 1..MaxPeriod

\* An optional argument: Python's None, or a value.
None == [given |-> FALSE, v |-> <<>>]
Some(x) == [given |-> TRUE, v |-> x]

SeqsUpTo(S, n) == UNION {[1..k -> S] : k \in 0..n}

Range(s) == {s[i] : i \in 1..Len(s)}

\* strictly increasing sequences over S: a sorted, duplicate-free period list
RECURSIVE SortedSeq(_)
SortedSeq(S) ==
    IF S = {} THEN <<>>
    ELSE LET m == CHOOSE x \in S : \A y \in S : x <= y
         IN <<m>> \o SortedSeq(S \ {m})

\* ------------------------------------------------- pandas/numpy helpers
\* Series.isin(values).values : the boolean mask, one entry per row
\* a membership test on the row number instead of the row's value
isin_rowpos(series, values) == [r \in 1..Len(series) |-> r \in Range(values)]

isin(series, values) == [r \in 1..Len(series) |-> series[r] \in Range(values)]

\* the row numbers a boolean mask selects, in dataset order
RECURSIVE SelectFrom(_, _)
SelectFrom(mask, r) ==
    IF r > Len(mask) THEN <<>>
    ELSE (IF mask[r] THEN <<r>> ELSE <<>>) \o SelectFrom(mask, r + 1)
loc(mask) == SelectFrom(mask, 1)

\* y.loc[mask].nunique() : number of distinct non-missing values
nunique(y, mask) ==
    Cardinality({y[r] : r \in {q \in 1..Len(mask) : mask[q]}} \ {NA})

\* unique_periods.iloc[index].values
iloc(unique_periods, index) == [k \in 1..Len(index) |-> unique_periods[index[k]]]

Interval(a, b) == [k \in 1..(IF b >= a THEN b - a + 1 ELSE 0) |-> a + k - 1]

\* ------------------------------------------- sklearn TimeSeriesSplit.split
\* test_size = 0 and max_train_size = 0 stand for None.
TimeSeriesSplit(n_samples, n_splits, gap, test_size, max_train_size) ==
    LET n_folds == n_splits + 1
        ts == IF test_size = 0 THEN n_samples \div n_folds ELSE test_size
    IN IF n_folds > n_samples \/ n_samples - gap - ts * n_splits <= 0
       THEN [ok |-> FALSE, indices |-> <<>>]
       ELSE [ok |-> TRUE,
             indices |->
               [k \in 1..n_splits |->
                  LET test_start == n_samples - n_splits * ts + (k - 1) * ts
                      train_end == test_start - gap
                  IN IF max_train_size # 0 /\ max_train_size < train_end
                     THEN <<Interval(train_end - max_train_size + 1, train_end),
                            Interval(test_start + 1, test_start + ts)>>
                     ELSE <<Interval(1, train_end),
                            Interval(test_start + 1, test_start + ts)>>]]

\* PanelSplit.split_unique_periods
split_unique_periods(indices, unique_periods) ==
    [i \in 1..Len(indices) |->
        <<iloc(unique_periods, indices[i][1]), iloc(unique_periods, indices[i][2])>>]

\* ---------------------------------------------------------- PanelSplit.split
\* The drop test of line 71 once the labels are known to be usable.  Python's
\* `or` short-circuits, so the labels are read only when both masks have rows.
is_dropped(y, train_indices, test_indices) ==
    (Len(train_indices) = 0 \/ Len(test_indices) = 0)
    \/ (nunique(y, train_indices) = 1 \/ nunique(y, test_indices) = 1)

\* line 71 dereferences y (y.loc) exactly when drop_folds holds and neither
\* mask has length zero; with y = None that is an AttributeError.
reads_labels(drop, train_indices, test_indices) ==
    drop /\ ~(Len(train_indices) = 0 \/ Len(test_indices) = 0)

\* a split that lowers n_splits for a dropped fold in every call
on_drop_any_call(init, acc, i) ==
    [acc EXCEPT !.n_splits = @ - 1, !.out = IF init THEN Append(@, i) ELSE @]

\* lines 72-76: the branch taken for a fold that is to be dropped.  acc is
\* the running (all_indices, n_splits, printed lines); i is the 0-based fold.
on_drop(init, acc, i) ==
    IF init
    THEN [acc EXCEPT !.n_splits = @ - 1, !.out = Append(@, i)]
    ELSE acc

\* line 78
on_keep(acc, train_indices, test_indices) ==
    [acc EXCEPT !.all_indices = Append(@, <<train_indices, test_indices>>)]

\* lines 67-78, from fold k (1-based) on.  Returns the record
\* [raised, all_indices, n_splits, out].
RECURSIVE split_from(_, _, _, _, _, _, _)
split_from(folds, periods, drop, y, init, k, acc) ==
    IF k > Len(folds) THEN acc
    ELSE LET train_indices == isin(periods, folds[k][1])
             test_indices == isin(periods, folds[k][2])
         IN IF reads_labels(drop, train_indices, test_indices) /\ ~y.given
            THEN [acc EXCEPT !.raised = "AttributeError"]
            ELSE IF drop /\ is_dropped(y.v, train_indices, test_indices)
                 THEN split_from(folds, periods, drop, y, init, k + 1,
                                 on_drop(init, acc, k - 1))
                 ELSE split_from(folds, periods, drop, y, init, k + 1,
                                 on_keep(acc, train_indices, test_indices))

\* lines 61-80: self.all_indices is reset first (line 65), then the loop runs
split(folds, periods, drop, ns, y, init) ==
    split_from(folds, periods, drop, y, init, 1,
               [raised |-> "no", all_indices |-> <<>>, n_splits |-> ns, out |-> <<>>])

\* ------------------------------------------------------------------- state
VARIABLES
    state,          \* "new" before the constructor ran, "ready", or "failed"
    u_periods_cv,   \* self.u_periods_cv
    all_periods,    \* self.all_periods
    drop_folds,     \* self.drop_folds
    n_splits,       \* self.n_splits
    all_indices,    \* self.all_indices
    cfg,            \* the constructor's arguments (n_splits, drop_folds, y)
    stdout,         \* indices of the folds named by the print of line 74
    warned,         \* warnings emitted
    estimator,      \* the estimator object handed to cross_val_predict
    again,          \* whether the last two calls were the same split call
    ret             \* outcome of the last call

vars == <<state, u_periods_cv, all_periods, drop_folds, n_splits, all_indices,
          cfg, stdout, warned, estimator, again, ret>>

\* what a call gave back: the exception raised ("no" for a normal return),
\* and the returned value
NoRet ==
    [op |-> "none",        \* the method called
     y |-> None,           \* its y argument
     x |-> <<>>,           \* its X argument (cross_val_impute)
     mode |-> "",          \* its prediction_method
     keep |-> FALSE,       \* its return_fitted_models / return_fitted_imputers
     raised |-> "no",      \* the exception that left the call
     folds |-> <<>>,       \* the list split returned
     n |-> 0,              \* the number get_n_splits returned
     table |-> <<>>,       \* the table returned
     models |-> <<>>]      \* the fitted models / imputers returned

\* An estimator object: whether fit ran on it, and the rows of its last fit.
Unfitted == [fitted |-> FALSE, rows |-> <<>>]

\* again.repeat: the last call was split, and so was the call before it, with
\* the same arguments; again.identical: both returned, and returned equal lists
NotAgain == [repeat |-> FALSE, identical |-> FALSE]

Init ==
    /\ state = "new"
    /\ u_periods_cv = <<>>
    /\ all_periods = <<>>
    /\ drop_folds = FALSE
    /\ n_splits = 0
    /\ all_indices = <<>>
    /\ cfg = [n_splits |-> 0, drop_folds |-> FALSE, y_given |-> FALSE, y |-> None]
    /\ stdout = <<>>
    /\ warned = <<>>
    /\ estimator = Unfitted
    /\ again = NotAgain
    /\ ret = NoRet

\* ------------------------------------------------------ PanelSplit.__init__
\* No object exists when the constructor raises.
Fails(exc, n, drop, y) ==
    /\ state' = "failed"
    /\ cfg' = [n_splits |-> n, drop_folds |-> drop, y_given |-> y.given, y |-> None]
    /\ ret' = [NoRet EXCEPT !.op = "init", !.raised = exc]
    /\ UNCHANGED <<u_periods_cv, all_periods, drop_folds, n_splits, all_indices,
                   stdout, warned, estimator, again>>

\* line 24: pd.Series(train_periods.unique()).sort_values()
default_unique_periods(train_periods) == SortedSeq(Range(train_periods))

\* An explicit unique_periods respects the data model: sorted, duplicate-free
\* and naming every period some row carries.  It may name periods no row
\* carries: the one drawn here names them all.
Overrides(train_periods) == {SortedSeq(Periods)}

\* The label series handed to the constructor.  The constructor only counts
\* distinct label values, so the first row's label is fixed to 0: exchanging
\* the two label values gives the same run.
LabelSeries(n) == {l \in [1..n -> Labels \ {NA}] : n = 0 \/ l[1] = 0}

\* The constructor, lines 23-39.  gap is an integer (TimeSeriesSplit cannot
\* split with the default gap=None); plot (lines 41-42) only draws.
\* `unique_periods == None` (line 23) is False for an object with scalar
\* equality; for a pandas Series it is an element-wise Series whose truth
\* value is ambiguous, and `if` raises ValueError.  eq_elementwise is that
\* property of the object passed.
__init__(train_periods, unique_periods, eq_elementwise, n, gap, test_size, max_train_size, drop, y) ==
    /\ IF unique_periods.given /\ eq_elementwise
       THEN Fails("ValueError: truth value is ambiguous", n, drop, y)
       ELSE
       LET up == IF unique_periods.given THEN unique_periods.v
                 ELSE default_unique_periods(train_periods)
           tss == TimeSeriesSplit(Len(up), n, gap, test_size, max_train_size)
           cv == split_unique_periods(tss.indices, up)
           r == split(cv, train_periods, drop, n, y, TRUE)
       IN IF ~tss.ok
          THEN Fails("ValueError: too few samples", n, drop, y)
          ELSE IF y.given /\ ~drop
          THEN Fails("NameError: warnings", n, drop, y)          \* line 31
          ELSE IF ~y.given /\ drop
          THEN Fails("ValueError: no y", n, drop, y)             \* line 34
          ELSE /\ state' = "ready"
               /\ u_periods_cv' = cv
               /\ all_periods' = train_periods
               /\ drop_folds' = drop
               /\ n_splits' = r.n_splits
               /\ all_indices' = r.all_indices
               /\ stdout' = stdout \o r.out
               /\ cfg' = [n_splits |-> n, drop_folds |-> drop,
                           y_given |-> y.given, y |-> y]
               /\ ret' = [NoRet EXCEPT !.op = "init", !.y = y]
               /\ UNCHANGED <<warned, estimator, again>>

Construct ==
    /\ state = "new"
    /\ \E train_periods \in SeqsUpTo(Periods, MaxRows) :
       \E unique_periods \in {None} \cup {Some(u) : u \in Overrides(train_periods)} :
       \E eq_elementwise \in (IF unique_periods.given THEN BOOLEAN ELSE {FALSE}) :
       \E n \in {2, 3}, gap \in {0, 1}, test_size \in {0}, max_train_size \in {0} :
       \E drop \in BOOLEAN :
       \E y \in {None} \cup {Some(l) : l \in LabelSeries(Len(train_periods))} :
           __init__(train_periods, unique_periods, eq_elementwise, n, gap,
                    test_size, max_train_size, drop, y)

\* ------------------------------------------------------- public split calls
\* A caller's split(X, y, groups): init keeps its default False (only the
\* constructor passes init=True, line 39).  all_indices is left as the loop
\* left it, also when line 71 raises.
Split(y) ==
    /\ LET r == split(u_periods_cv, all_periods, drop_folds, n_splits, y, FALSE)
       IN /\ all_indices' = r.all_indices
          /\ n_splits' = r.n_splits
          /\ stdout' = stdout \o r.out
          /\ again' = [repeat |-> ret.op = "split" /\ ret.y = y,
                        identical |-> /\ ret.raised = "no"
                                      /\ r.raised = "no"
                                      /\ ret.folds = r.all_indices]
          /\ ret' = [NoRet EXCEPT !.op = "split", !.y = y, !.raised = r.raised,
                                   !.folds = IF r.raised = "no" THEN r.all_indices
                                             ELSE <<>>]
    /\ UNCHANGED <<state, u_periods_cv, all_periods, drop_folds, cfg, warned,
                   estimator>>

\* the label series a caller passes: the construction labels, or other ones
CallLabels(n) ==
    {[r \in 1..n |-> IF r = 1 THEN NA ELSE 0]}
    \cup (IF cfg.y_given THEN {cfg.y.v} ELSE {})

SplitCall ==
    /\ state = "ready"
    /\ \E y \in {None} \cup {Some(l) : l \in CallLabels(Len(all_periods))} : Split(y)

\* ------------------------------------------------- PanelSplit.get_n_splits
get_n_splits ==
    /\ state = "ready"
    /\ ret' = [NoRet EXCEPT !.op = "get_n_splits", !.n = n_splits]
    /\ again' = NotAgain
    /\ UNCHANGED <<state, u_periods_cv, all_periods, drop_folds, n_splits,
                   all_indices, cfg, stdout, warned, estimator>>

\* ------------------------------------------------ PanelSplit._predict_fold
Modes == {"predict", "predict_proba", "predict_log_proba", "decision_function"}
Supported == {"predict", "predict_proba", "predict_log_proba"}

\* line 117: estimator.fit(...) fits the object it is called on and returns
\* it (the scikit-learn convention), so `model` is the estimator itself.
\* sample_weight, when given, is sliced to the same rows (line 185).
fit(est, rows) == [fitted |-> TRUE, rows |-> rows]

\* model.predict(X_test) and its siblings: one value per test row, decided
\* by the model's fitted state when it is asked and by the mode
model_predict(model, mode, X_test) ==
    [k \in 1..Len(X_test) |-> [mode |-> mode, seen |-> model.rows]]

\* lines 117-126: the estimator after the call, the exception, the values
_predict_fold(est, X_train, X_test, prediction_method) ==
    LET model == fit(est, X_train)
    IN IF prediction_method \in Supported
       THEN [raised |-> "no", est |-> model,
             values |-> model_predict(model, prediction_method, X_test)]
       ELSE [raised |-> "ValueError: invalid prediction_method", est |-> model,
             values |-> <<>>]

\* ---------------------------------------------- PanelSplit.cross_val_predict
\* y.loc[train_indices].dropna().index
dropna_index(y, train_indices) ==
    SelectSeq(loc(train_indices), LAMBDA r : y[r] # NA)

\* lines 182-187: indices.loc[test_indices].copy() with the prediction column
pred_rows(train_indices, test_indices, values) ==
    [k \in 1..Len(values) |-> [index |-> loc(test_indices)[k], y_pred |-> values[k]]]

\* lines 176-191 from fold k on; acc = [raised, est, predictions, fitted_models].
\* fitted_models holds references; "estimator" is the object passed in.
RECURSIVE predict_from(_, _, _, _, _)
predict_from(folds, y, prediction_method, k, acc) ==
    IF k > Len(folds) THEN acc
    ELSE LET train_indices == folds[k][1]
             test_indices == folds[k][2]
             X_train == dropna_index(y, train_indices)
             X_test == loc(test_indices)
             f == _predict_fold(acc.est, X_train, X_test, prediction_method)
         IN IF f.raised # "no"
            THEN [acc EXCEPT !.raised = f.raised, !.est = f.est]
            ELSE predict_from(folds, y, prediction_method, k + 1,
                   [acc EXCEPT
                      !.est = f.est,
                      !.fitted_models = Append(@, "estimator"),
                      !.predictions =
                          Append(@, pred_rows(train_indices, test_indices, f.values))])

\* line 193: pd.concat(predictions, axis=0); it raises on an empty list
\* a concatenation that puts the later frames first
RECURSIVE concat_reversed(_)
concat_reversed(frames) ==
    IF frames = <<>> THEN <<>> ELSE concat_reversed(Tail(frames)) \o Head(frames)
RECURSIVE concat(_)
concat(frames) ==
    IF frames = <<>> THEN <<>> ELSE Head(frames) \o concat(Tail(frames))

\* The caller hands in an unfitted estimator.  X and indices are the dataset
\* itself: row r of either is identified by r.
cross_val_predict(y, prediction_method, return_fitted_models) ==
    LET s == split(u_periods_cv, all_periods, drop_folds, n_splits, None, FALSE)
        p == predict_from(s.all_indices, y, prediction_method, 1,
                          [raised |-> "no", est |-> Unfitted,
                           predictions |-> <<>>, fitted_models |-> <<>>])
        base == [NoRet EXCEPT !.op = "cross_val_predict", !.y = Some(y),
                              !.mode = prediction_method,
                              !.keep = return_fitted_models]
    IN /\ all_indices' = s.all_indices
       /\ n_splits' = s.n_splits
       /\ stdout' = stdout \o s.out
       /\ again' = NotAgain
       /\ IF s.raised # "no"
          THEN /\ estimator' = Unfitted
               /\ ret' = [base EXCEPT !.raised = s.raised]
          ELSE /\ estimator' = p.est
               /\ IF p.raised # "no"
                  THEN ret' = [base EXCEPT !.raised = p.raised]
                  ELSE IF p.predictions = <<>>
                  THEN ret' = [base EXCEPT !.raised = "ValueError: No objects to concatenate"]
                  ELSE ret' = [base EXCEPT
                                 !.table = concat(p.predictions),
                                 !.models = IF return_fitted_models
                                            THEN p.fitted_models ELSE <<>>]
       /\ UNCHANGED <<state, u_periods_cv, all_periods, drop_folds, cfg, warned>>

\* the label series handed to cross_val_predict; NA is a missing label
PredictLabels(n) ==
    {[r \in 1..n |-> IF r = 1 THEN NA ELSE r % 2]}

Predict ==
    /\ state = "ready"
    /\ \E y \in PredictLabels(Len(all_periods)) :
       \E prediction_method \in Modes :
       \E return_fitted_models \in BOOLEAN :
           cross_val_predict(y, prediction_method, return_fitted_models)

\* ----------------------------------------------- PanelSplit.cross_val_impute
\* lines 244-253 over the folds; _X is the working copy.  The module never
\* binds the name `clone`, so line 249 raises NameError in the first fold,
\* before anything is fitted or written.
impute_loop(folds, _X) ==
    IF folds = <<>>
    THEN [raised |-> "no", _X |-> _X, imputers |-> <<>>]
    ELSE [raised |-> "NameError: clone", _X |-> _X, imputers |-> <<>>]

cross_val_impute(X, return_fitted_imputers) ==
    LET s == split(u_periods_cv, all_periods, drop_folds, n_splits, None, FALSE)
        l == impute_loop(s.all_indices, X)
        base == [NoRet EXCEPT !.op = "cross_val_impute", !.x = X,
                              !.keep = return_fitted_imputers]
    IN /\ all_indices' = s.all_indices
       /\ n_splits' = s.n_splits
       /\ stdout' = stdout \o s.out
       /\ again' = NotAgain
       /\ IF s.raised # "no"
          THEN ret' = [base EXCEPT !.raised = s.raised]
          ELSE IF l.raised # "no"
          THEN ret' = [base EXCEPT !.raised = l.raised]
          ELSE ret' = [base EXCEPT !.table = l._X, !.models = l.imputers]
       /\ UNCHANGED <<state, u_periods_cv, all_periods, drop_folds, cfg, warned,
                      estimator>>

\* feature tables: one cell per row, NA a missing entry
Tables(n) ==
    {[r \in 1..n |-> [index |-> r, value |-> IF r % 2 = 1 THEN NA ELSE 0]]}

Impute ==
    /\ state = "ready"
    /\ \E X \in Tables(Len(all_periods)), return_fitted_imputers \in BOOLEAN :
           cross_val_impute(X, return_fitted_imputers)

Next == Construct \/ SplitCall \/ get_n_splits \/ Predict \/ Impute

Spec == Init /\ [][Next]_vars

\* the splitter alone: construction, split and get_n_splits
NextSplit == Construct \/ SplitCall \/ get_n_splits
SpecSplit == Init /\ [][NextSplit]_vars

\* construction followed by cross-validated prediction
NextPredict == Construct \/ Predict
SpecPredict == Init /\ [][NextPredict]_vars

\* ================================================================ claims
N == Len(all_periods)
Rows == 1..N

\* the rows whose period is one of fold k's train (test) periods
TrainRows(k) == {r \in Rows : all_periods[r] \in Range(u_periods_cv[k][1])}
TestRows(k) == {r \in Rows : all_periods[r] \in Range(u_periods_cv[k][2])}
RowMask(S) == [r \in Rows |-> r \in S]
FoldMasks(k) == <<RowMask(TrainRows(k)), RowMask(TestRows(k))>>

\* an ordinary dataset: every fold selects rows on its train and its test
\* side (folds that select no row are the subject of C9)
EveryFoldHasRows ==
    \A k \in 1..Len(u_periods_cv) : TrainRows(k) # {} /\ TestRows(k) # {}

\* the values the construction labels take on a set of rows
LabelValues(S) == {cfg.y.v[r] : r \in S}

\* the folds the constructor is to drop: drop_folds is set and a side of the
\* fold carries exactly one label value, or the dataset has no rows
DroppedAtInit ==
    {k \in 1..Len(u_periods_cv) :
        /\ cfg.drop_folds
        /\ \/ N = 0
           \/ Cardinality(LabelValues(TrainRows(k))) = 1
           \/ Cardinality(LabelValues(TestRows(k))) = 1}

\* C1: after a construction with configured fold count n that drops d folds,
\* n_splits is n - d, get_n_splits returns n - d, all_indices as the
\* constructor leaves it has n - d entries, and n_splits is still n - d after
\* any later call (split calls included).
C1_SplitCount ==
    state = "ready" =>
        /\ n_splits = cfg.n_splits - Cardinality(DroppedAtInit)
        /\ (ret.op = "init" => Len(all_indices) = n_splits)
        /\ (ret.op = "get_n_splits" => ret.n = cfg.n_splits - Cardinality(DroppedAtInit))

\* a later split call that skipped folds on a splitter that dropped one fold
\* out of two at construction
C1_Witness ==
    /\ state = "ready"
    /\ ret.op = "split" /\ ret.raised = "no"
    /\ cfg.n_splits = 2 /\ Cardinality(DroppedAtInit) = 1
    /\ n_splits = 1
    /\ Len(ret.folds) = 0

\* C2: with drop_folds set, a fold whose test rows all carry one label value
\* is not in all_indices after construction and not in the list a later
\* split() without arguments returns, which does return; with constant
\* labels get_n_splits returns 0 and split() returns the empty list.
\* (Stated for datasets in which every fold selects rows.)
OneValueTestFolds ==
    {k \in 1..Len(u_periods_cv) :
        TestRows(k) # {} /\ Cardinality(LabelValues(TestRows(k))) = 1}

C2_DroppedFoldAbsent ==
    (state = "ready" /\ cfg.drop_folds /\ EveryFoldHasRows) =>
        /\ (ret.op = "init" =>
              \A k \in OneValueTestFolds : FoldMasks(k) \notin Range(all_indices))
        /\ ((ret.op = "split" /\ ~ret.y.given) =>
              /\ ret.raised = "no"
              /\ \A k \in OneValueTestFolds : FoldMasks(k) \notin Range(ret.folds))
        /\ (Cardinality(LabelValues(Rows)) = 1 =>
              /\ n_splits = 0
              /\ (ret.op = "get_n_splits" => ret.n = 0)
              /\ ((ret.op = "split" /\ ~ret.y.given) =>
                     ret.raised = "no" /\ ret.folds = <<>>))

\* C3: two split calls in a row with the same arguments both return, and
\* return the same list of (train mask, test mask) pairs.  (Stated for
\* datasets in which every fold selects rows.)
C3_SplitTwiceIdentical ==
    (state = "ready" /\ again.repeat /\ EveryFoldHasRows) => again.identical

\* C4: in every fold split produces, a row's train (test) mask entry is true
\* exactly when the row's period is one of the fold's train (test) periods;
\* so rows sharing a period have the same entries, and when the two period
\* sets are disjoint no row is in both masks.
C4_MasksFollowPeriods ==
    state = "ready" =>
        \A j \in 1..Len(all_indices) :
            LET train_mask == all_indices[j][1]
                test_mask == all_indices[j][2]
            IN /\ Len(train_mask) = N /\ Len(test_mask) = N
               /\ \E k \in 1..Len(u_periods_cv) :
                    LET P == Range(u_periods_cv[k][1])
                        Q == Range(u_periods_cv[k][2])
                    IN /\ \A r \in Rows : train_mask[r] <=> all_periods[r] \in P
                       /\ \A r \in Rows : test_mask[r] <=> all_periods[r] \in Q
                       /\ (P \cap Q = {} => \A r \in Rows : ~(train_mask[r] /\ test_mask[r]))
               /\ \A r1, r2 \in Rows :
                    all_periods[r1] = all_periods[r2] =>
                        /\ train_mask[r1] = train_mask[r2]
                        /\ test_mask[r1] = test_mask[r2]

\* split returned a fold with two train rows of one period and a test row
\* that comes before them in the dataset
C4_Witness ==
    /\ state = "ready" /\ ret.op = "split" /\ ret.raised = "no"
    /\ \E j \in 1..Len(ret.folds) :
          \E r, r1, r2 \in Rows :
                /\ r < r1 /\ r1 < r2 /\ all_periods[r1] = all_periods[r2]
                /\ ret.folds[j][1][r1] /\ ret.folds[j][1][r2]
                /\ ret.folds[j][2][r]

\* C5: the constructor's outcome follows (drop_folds, labels given):
\* drop_folds without labels raises the missing-labels error; labels without
\* drop_folds warns, then completes with no fold dropped; otherwise it
\* completes with neither error nor warning.  (Stated for constructions
\* whose period list the interval selector accepted.)
PastSelector ==
    ret.raised \notin {"ValueError: truth value is ambiguous",
                       "ValueError: too few samples"}

C5_ConstructionOutcome ==
    (ret.op = "init" /\ PastSelector) =>
        IF cfg.drop_folds /\ ~cfg.y_given
        THEN state = "failed" /\ ret.raised = "ValueError: no y"
        ELSE IF ~cfg.drop_folds /\ cfg.y_given
        THEN /\ state = "ready" /\ ret.raised = "no"
             /\ warned # <<>>
             /\ n_splits = cfg.n_splits /\ Len(all_indices) = cfg.n_splits
        ELSE state = "ready" /\ ret.raised = "no" /\ warned = <<>>

\* the folds (1-based positions in all_indices) whose test mask holds row r
TestFoldsOf(r) == {k \in 1..Len(all_indices) : all_indices[k][2][r]}

\* C6: the table cross_val_predict returns has exactly one row for each
\* dataset row that is a test row of some fold of split(), none for other
\* rows; each table row carries its dataset row's index; rows come fold
\* after fold, in dataset order inside a fold.
C6_PredictTable ==
    (state = "ready" /\ ret.op = "cross_val_predict" /\ ret.raised = "no") =>
        /\ \A i \in 1..Len(ret.table) : ret.table[i].index \in Rows
        /\ \A r \in Rows :
              Cardinality({i \in 1..Len(ret.table) : ret.table[i].index = r})
                 = (IF TestFoldsOf(r) # {} THEN 1 ELSE 0)
        /\ \A i, j \in 1..Len(ret.table) :
              i < j =>
                 \E ki \in TestFoldsOf(ret.table[i].index),
                    kj \in TestFoldsOf(ret.table[j].index) :
                       \/ ki < kj
                       \/ ki = kj /\ ret.table[i].index < ret.table[j].index

\* a returned table whose fold order differs from the dataset order
C6_Witness ==
    /\ state = "ready" /\ ret.op = "cross_val_predict" /\ ret.raised = "no"
    /\ Len(ret.table) >= 2
    /\ ret.table[1].index > ret.table[2].index

\* C7: cross_val_predict with an unsupported prediction_method raises the
\* invalid-argument error that lists the supported values, and returns no
\* table, whatever the splitter (also when split() yields no fold).
C7_InvalidModeRejected ==
    (state = "ready" /\ ret.op = "cross_val_predict" /\ ret.mode \notin Supported) =>
        /\ ret.raised = "ValueError: invalid prediction_method"
        /\ ret.table = <<>>

\* C8: cross_val_impute returns the table; a row in no fold's test mask is
\* as in the input, and the rows in a test mask are the ones written.
\* (Stated for splitters without drop_folds, on datasets in which every fold
\* selects rows.)
C8_ImputeFrame ==
    (state = "ready" /\ ret.op = "cross_val_impute" /\ ~drop_folds
                     /\ EveryFoldHasRows) =>
        /\ ret.raised = "no"
        /\ Len(ret.table) = Len(ret.x)
        /\ \A r \in Rows : TestFoldsOf(r) = {} => ret.table[r] = ret.x[r]
        /\ \A r \in Rows : ret.table[r].index = r

\* C9: with drop_folds set, a fold whose train mask or test mask selects no
\* row is not in all_indices after construction, and each such fold lowered
\* n_splits by one.
NoRowFolds ==
    {k \in 1..Len(u_periods_cv) : TrainRows(k) = {} \/ TestRows(k) = {}}

C9_EmptyFoldDropped ==
    (state = "ready" /\ cfg.drop_folds) =>
        /\ n_splits <= cfg.n_splits - Cardinality(NoRowFolds)
        /\ (ret.op = "init" =>
              \A k \in NoRowFolds : FoldMasks(k) \notin Range(all_indices))

\* the object a fitted_models entry refers to: the one estimator object is
\* the only model object the code ever holds
Deref(ref) == estimator

\* C10: cross_val_predict leaves the estimator it was given unfitted; the
\* retained list has one model per fold, no two of them the same object, and
\* model k is fitted on the training rows of fold k.  (Stated for calls that
\* keep the fitted models, on datasets in which every fold selects rows.)
C10_FreshModelPerFold ==
    (state = "ready" /\ ret.op = "cross_val_predict" /\ ret.raised = "no"
                     /\ ret.keep /\ EveryFoldHasRows) =>
        /\ ~estimator.fitted
        /\ Len(ret.models) = Len(all_indices)
        /\ \A j, k \in 1..Len(ret.models) : j # k => ret.models[j] # ret.models[k]
        /\ \A k \in 1..Len(ret.models) :
              Deref(ret.models[k]).rows = dropna_index(ret.y.v, all_indices[k][1])

====
